---- MODULE Spec2Model ----
(***************************************************************************)
(* Incremental ingestion and merge-dedup engine of the HubSpot analytics   *)
(* data platform: one entity type, its source records in the CRM, its      *)
(* date partitions in the data lake, its sync state (watermark) and the    *)
(* incremental-sync parameter, driven by serialized ingestion runs.        *)
(* Timestamps are whole hours since the configured start date.             *)
(***************************************************************************)
EXTENDS Integers, Sequences, FiniteSets, TLC

VARIABLES
    now,        \* wall clock, in hours
    entity,     \* the entity type of this table: "deals" or "companies"
    source,     \* CRM records: id -> [created, modified]
    events,     \* number of source changes so far
    param,      \* value of /hubspot-analytics/incremental-sync-enabled
    wm,         \* the sync state item of the entity type (last_sync_at, which
                \* no run reads, is left out)
    parts,      \* data lake: dt -> sequence of rows
    pc,         \* position of the current run: idle, fetch, write, commit
    mode,       \* write strategy of the current run: full or merge
    window,     \* fetch window of the current run
    fetched,    \* normalized rows fetched by the current run
    pending,    \* affected partitions the current run has not written (yet)
    result,     \* what the last finished run reported: none, ok, failed
    runs,       \* number of runs started so far
    failedAt,   \* where the last finished run failed: none, fetch, write, commit
    wm0,        \* sync state when the current run started (history)
    parts0,     \* partitions when the current run started (history)
    changed,    \* has the source changed since the current run's fetch (history)
    prev,       \* how the run before the current one went (history)
    expect,     \* what that run would have stored had it not failed (history)
    other,      \* data lake: the partitions of another entity type's table
    reads,      \* could the current run read the parameter and the sync state (history)
    fetcher,    \* the request in flight of the paginated fetcher and its retries
    pacer,      \* the request pacer shared by the sub-window fetches of a run
    split,     \* the splitting of a window whose results exceed the cap
    act,       \* an activity row and the category a view gives it
    race,      \* two runs of one entity type that are not serialized
    cred,       \* the credential provider of one process and the secret store
    norm,       \* the raw records of a fetch on their way through the normalizer
    flow,       \* one execution of the ingestion state machine
    query,      \* a query of the deals_latest view
    limit       \* how many source changes and runs the behaviour is followed for

vars == <<now, entity, source, events, param, wm, parts, pc, mode,
          window, fetched, pending, result, runs, failedAt, wm0, parts0, changed,
          prev, expect, other, reads, fetcher, pacer, split, act, race, cred, norm, flow, query, limit>>

\* variables of the fetcher and the credential provider, which a run of Spec
\* sees only through the outcome of its fetch, and the limits, which no step
\* changes
auxVars == <<fetcher, pacer, split, act, race, cred, norm, flow, query, limit>>

\* ---------------------------------------------------------------- bounds
Ids == {"D1", "D2"}
MaxEvents == 2
MaxRuns == 2
Deltas == {1, 24}

MaxPages == 2
MaxClock == 11
MaxResults == 2     \* results one query returns at most (10,000, scaled down)
MaxRecords == 3
MaxInstant == 3
MaxMinutes == 12
MaxRotations == 1

\* ------------------------------------------------------ program constants
HoursPerDay == 24
OverlapHours == 2
StartDate == 0
NoTs == 0 - 1

BaseDelay == 1
MaxDelay == 30
MaxRetries == 5
RateCeiling == 5
TicksPerSecond == 10
TokenTtl == 5       \* minutes
RetryMaxAttempts == 6

EntityTypes == {"deals", "companies"}
EnablingValues == {"true", "1", "yes", "enabled"}
DisablingValues == {"false", "0", "no", "disabled"}
DefaultParam == "false"

\* ---------------------------------------------------------------- helpers
Max2(a, b) == IF a >= b THEN a ELSE b

MaxOf(S) == IF S = {} THEN NoTs ELSE CHOOSE m \in S : \A x \in S : x <= m

Range(s) == {s[i] : i \in 1..Len(s)}

\* the rows of a set in ascending order of their id
RECURSIVE SortedById(_)
SortedById(S) ==
    IF S = {} THEN <<>>
    ELSE LET m == CHOOSE x \in S : \A y \in S : x.id = y.id \/ x.id = "D1"
         IN <<m>> \o SortedById(S \ {m})

RECURSIVE SortedSeq(_)
SortedSeq(S) ==
    IF S = {} THEN <<>>
    ELSE LET m == CHOOSE x \in S : \A y \in S : x <= y
         IN <<m>> \o SortedSeq(S \ {m})

DateOf(ts) == ts \div HoursPerDay

\* dt of a normalized row: created_at date for deals (and activities),
\* last_modified_at (else created_at) date for companies (and contacts)
PartitionKey(e, r) ==
    IF e = "deals" THEN DateOf(r.created)
    ELSE IF r.modified # NoTs THEN DateOf(r.modified) ELSE DateOf(r.created)

AllRead == [param |-> TRUE, state |-> TRUE]

\* no request in flight
NoFetcher == [st |-> "off"]

Fetchers == {"F1", "F2"}
PacerKeys == Fetchers \cup {"all"}
NoPacer == [st |-> "off"]
\* the pacer of a run whose fetches have l[f] pages to ask for
NewPacer(l) == [clock |-> 0, nextFree |-> [k \in PacerKeys |-> 0], sent |-> <<>>,
                st |-> [f \in Fetchers |-> "ready"], left |-> l, retries |-> 0]

NoSplit == [st |-> "off"]

\* SQL NULL of a varchar column
Null == "<NULL>"
\* a free text is NULL or the set of the words it holds
NullText == [null |-> TRUE, words |-> {}]
Text(ws) == [null |-> FALSE, words |-> ws]
NoActivity == [st |-> "off"]

RunIds == {"A", "B"}
NoRace == [st |-> "off"]

NoCall == [kind |-> "none", had |-> FALSE, age |-> 0, tok |-> 0, n |-> 0, stored |-> 0]
\* a process that has not asked for the token yet; the secret is version 1
NewProcess == [clock |-> 0, cached |-> FALSE, token |-> 0, fetchedAt |-> 0, secret |-> 1,
               reads |-> <<>>, last |-> NoCall]
NoCred == [st |-> "off"]

\* no execution of the state machine
NoFlow == [st |-> "off"]

\* no query of the view
NoQuery == [st |-> "off"]

\* no fetch on its way through the normalizer
NoNorm == [st |-> "off"]

NoWm == [exists |-> FALSE, lc |-> NoTs, lm |-> NoTs, n |-> 0]

\* every value but "false" switches incremental sync on
NotFalse(v) == v # "false"

IsEnabled(v) == v \in EnablingValues

\* ------------------------------------------------------ watermark manager
IncrementalStartNoBuffer(w) == Max2(w.lc, w.lm)

\* start of the incremental window for an existing sync state
IncrementalStart(w) == Max2(w.lc, w.lm) - OverlapHours

\* a check of the parameter alone
UsesIncrementalNoState(paramOk, stateOk, p, w) == paramOk /\ IsEnabled(p) /\ stateOk

\* does the run go incremental: parameter readable and enabling, sync state
\* readable, present and holding a timestamp
UsesIncremental(paramOk, stateOk, p, w) ==
    /\ paramOk /\ IsEnabled(p)
    /\ stateOk /\ w.exists
    /\ Max2(w.lc, w.lm) # NoTs

\* a window measured back from the run's own start time
GetWindowFromNow(paramOk, stateOk, p, w, t) ==
    IF UsesIncremental(paramOk, stateOk, p, w)
    THEN [from |-> t - OverlapHours, to |-> t]
    ELSE [from |-> StartDate, to |-> t]

\* a window that trusts the stored timestamps whatever the reads returned
GetWindowIgnoringReads(paramOk, stateOk, p, w, t) ==
    IF UsesIncremental(TRUE, TRUE, p, w)
    THEN [from |-> IncrementalStart(w), to |-> t]
    ELSE [from |-> StartDate, to |-> t]

\* the time window of a run started at time t
GetWindow(paramOk, stateOk, p, w, t) ==
    IF UsesIncremental(paramOk, stateOk, p, w)
    THEN [from |-> IncrementalStart(w), to |-> t]
    ELSE [from |-> StartDate, to |-> t]

\* the sync state item written after a run: the latest timestamps of the
\* processed data, in a single put
NewSyncState(rows) ==
    [exists |-> TRUE,
     lc |-> MaxOf({rows[i].created : i \in 1..Len(rows)}),
     lm |-> MaxOf({rows[i].modified : i \in 1..Len(rows)}),
     n |-> Len(rows)]

\* ------------------------------------------------------------------ fetch
\* the records the search returns for a window (filter on last-modified)
Matching(src, w) ==
    {[id |-> i, created |-> src[i].created, modified |-> src[i].modified] :
        i \in {j \in DOMAIN src : src[j].modified >= w.from /\ src[j].modified <= w.to}}

\* ------------------------------------------------------ merge-dedup writer
KeepAll(s) == s

\* drop_duplicates(subset = primary key, keep = "last")
KeepLast(s) ==
    LET keep == {i \in 1..Len(s) : \A j \in (i + 1)..Len(s) : s[j].id # s[i].id}
        idx == SortedSeq(keep)
    IN [k \in 1..Len(idx) |-> s[idx[k]]]

Existing(p, d) == IF d \in DOMAIN p THEN p[d] ELSE <<>>

RowsOf(e, rows, d) ==
    LET In(r) == PartitionKey(e, r) = d IN SelectSeq(rows, In)

OverwriteOnly(m, e, p, rows, d) == RowsOf(e, rows, d)

\* the new contents of partition d
MergedPartition(m, e, p, rows, d) ==
    IF m = "merge"
    THEN KeepLast(Existing(p, d) \o RowsOf(e, rows, d))
    ELSE RowsOf(e, rows, d)

\* a write of the whole dataset (mode "overwrite")
OverwriteDataset(p, d, rows) == [x \in {d} |-> rows]

\* overwrite_partitions: partition d is replaced as a whole
OverwritePartition(p, d, rows) ==
    [x \in (DOMAIN p) \cup {d} |-> IF x = d THEN rows ELSE p[x]]

\* a writer whose path is the root of the curated data
WriteToBucket(t, e, p, d, rows) == OverwritePartition(p, d, rows)

\* table t after the writer of entity type e replaces its partition d: the
\* writer's path is curated/{e}/, so another table is not under it
WriteTo(t, e, p, d, rows) ==
    IF t = e THEN OverwritePartition(p, d, rows) ELSE p

OtherType(e) == CHOOSE t \in EntityTypes : t # e

\* what the other entity type's function has stored
OtherTable == [d \in {0} |-> <<[id |-> "D1", created |-> 0, modified |-> 0]>>]

AffectedDates(e, rows) == {PartitionKey(e, rows[i]) : i \in 1..Len(rows)}

\* the writer over all the partitions ds, none failing
RECURSIVE WriteAll(_, _, _, _, _)
WriteAll(m, e, p, rows, ds) ==
    IF ds = <<>> THEN p
    ELSE WriteAll(m, e,
             OverwritePartition(p, Head(ds), MergedPartition(m, e, p, rows, Head(ds))),
             rows, Tail(ds))

FailedBeforeWrite(f) == f = "fetch"
FailedInWrite(f) == f = "write"

NoRun == [result |-> "none", failedAt |-> "none", mode |-> "full", from |-> StartDate,
          same |-> FALSE]

\* ------------------------------------------------------------------- Init
\* the CRM may hold a record from before the platform was deployed
InitialRecord == [i \in {"D1"} |-> [created |-> 0, modified |-> 0]]

Deployed ==
    /\ now = 0
    /\ entity \in EntityTypes
    /\ source \in {<<>>, InitialRecord}
    /\ events = 0
    /\ param = DefaultParam
    /\ wm = NoWm
    /\ parts = <<>>
    /\ pc = "idle"
    /\ mode = "full"
    /\ window = [from |-> StartDate, to |-> 0]
    /\ fetched = <<>>
    /\ pending = <<>>
    /\ result = "none"
    /\ runs = 0
    /\ failedAt = "none"
    /\ wm0 = NoWm
    /\ parts0 = <<>>
    /\ changed = FALSE
    /\ prev = NoRun
    /\ expect = <<>>
    /\ other = OtherTable
    /\ reads = AllRead
    /\ fetcher = NoFetcher
    /\ pacer = NoPacer
    /\ split = NoSplit
    /\ act = NoActivity
    /\ race = NoRace
    /\ cred = NoCred
    /\ query = NoQuery
    /\ flow = NoFlow
    /\ norm = NoNorm

\* the limits of the behaviours of Spec
Limits == [events |-> MaxEvents, runs |-> MaxRuns]
\* fewer changes of the source, one more run
RerunLimits == [events |-> MaxEvents - 1, runs |-> MaxRuns + 1]
\* as many changes of the source, one more run
LongLimits == [events |-> MaxEvents, runs |-> MaxRuns + 1]

Init == Deployed /\ limit = Limits
InitRerun == Deployed /\ limit = RerunLimits
InitLong == Deployed /\ limit = LongLimits

runVars == <<pc, mode, window, fetched, pending, result, runs, failedAt, wm0, parts0, changed,
          prev, expect>>

\* ------------------------------------------------------------ environment
\* the CRM numbers its records in the order of their creation
NextId(src) == IF "D1" \in DOMAIN src THEN Ids \ DOMAIN src ELSE {"D1"}

\* a record is created in the CRM
CreateRecord ==
    /\ events < limit.events
    /\ \E i \in NextId(source), d \in Deltas :
          /\ now' = now + d
          /\ source' = [x \in (DOMAIN source) \cup {i} |->
                          IF x = i THEN [created |-> now + d, modified |-> now + d]
                          ELSE source[x]]
    /\ events' = events + 1
    /\ changed' = TRUE
    /\ UNCHANGED auxVars
    /\ UNCHANGED <<other, reads, entity, param, wm, parts, pc, mode, window, fetched, pending,
                   result, runs, failedAt, wm0, parts0, prev, expect>>

\* a record is modified in the CRM
ModifyRecord ==
    /\ events < limit.events
    /\ \E i \in DOMAIN source, d \in Deltas :
          /\ now' = now + d
          /\ source' = [source EXCEPT ![i].modified = now + d]
    /\ events' = events + 1
    /\ changed' = TRUE
    /\ UNCHANGED auxVars
    /\ UNCHANGED <<other, reads, entity, param, wm, parts, pc, mode, window, fetched, pending,
                   result, runs, failedAt, wm0, parts0, prev, expect>>

\* an operator updates the incremental-sync parameter; a run reads it only
\* when it starts, so an update during a run is the same update after it
SetParameter ==
    /\ pc = "idle"
    /\ \E v \in {"true", "false"} :
          /\ v # param
          /\ param' = v
    /\ UNCHANGED auxVars
    /\ UNCHANGED <<other, reads, now, entity, source, events, wm, parts, runVars>>

\* ---------------------------------------------------------- ingestion run
\* the orchestrator invokes the ingestion function: the reads of parameter
\* and sync state succeed or not, then window and fetch
Begin(paramOk, stateOk) ==
    /\ pc = "idle"
    /\ runs < limit.runs
    /\ mode' = IF UsesIncremental(paramOk, stateOk, param, wm) THEN "merge" ELSE "full"
    /\ window' = GetWindow(paramOk, stateOk, param, wm, now)
    /\ fetched' = SortedById(Matching(source, window'))
    /\ pc' = "fetch"
    /\ pending' = SortedSeq(AffectedDates(entity, fetched'))
    /\ runs' = runs + 1
    /\ wm0' = wm
    /\ parts0' = parts
    /\ changed' = FALSE
    /\ failedAt' = "none"
    /\ result' = "none"
    /\ UNCHANGED auxVars
    /\ UNCHANGED <<other, now, entity, source, events, param, wm, parts>>

\* a run starts; what the run before it did is kept for the record
StartRun ==
    /\ \E paramOk \in BOOLEAN, stateOk \in BOOLEAN : Begin(paramOk, stateOk)
    /\ prev' = [result |-> result, failedAt |-> failedAt,
                mode |-> IF FailedBeforeWrite(failedAt) THEN mode ELSE "full",
                from |-> IF FailedBeforeWrite(failedAt) THEN window.from ELSE StartDate,
                same |-> (runs > 0 /\ ~changed /\ ~FailedBeforeWrite(failedAt))]
    /\ expect' = IF FailedInWrite(failedAt) /\ ~changed
                 THEN WriteAll(mode, entity, parts0, fetched,
                               SortedSeq(AffectedDates(entity, fetched)))
                 ELSE <<>>
    /\ UNCHANGED reads

\* a run starts; what its reads returned is kept for the record
StartRunLogged ==
    /\ \E paramOk \in BOOLEAN, stateOk \in BOOLEAN :
          /\ Begin(paramOk, stateOk)
          /\ reads' = [param |-> paramOk, state |-> stateOk]
    /\ UNCHANGED <<prev, expect>>

\* every page arrived: the rows go to the writer
FetchDone ==
    /\ pc = "fetch"
    /\ pc' = IF pending = <<>> THEN "commit" ELSE "write"
    /\ UNCHANGED auxVars
    /\ UNCHANGED <<other, reads, now, entity, source, events, param, wm, parts,
                   mode, window, fetched, pending, result, runs, failedAt, wm0, parts0, changed, prev, expect>>

\* the retries of a page are exhausted: the run fails
FetchFail ==
    /\ pc = "fetch"
    /\ pc' = "idle"
    /\ result' = "failed"
    /\ failedAt' = "fetch"
    /\ UNCHANGED auxVars
    /\ UNCHANGED <<other, reads, now, entity, source, events, param, wm, parts,
                   mode, window, fetched, pending, runs, wm0, parts0, changed, prev, expect>>

\* the next affected partition is read, merged and replaced
WritePartition ==
    /\ pc = "write"
    /\ pending # <<>>
    /\ LET d == Head(pending)
           rows == MergedPartition(mode, entity, parts, fetched, d)
       IN /\ parts' = WriteTo(entity, entity, parts, d, rows)
          /\ other' = WriteTo(OtherType(entity), entity, other, d, rows)
    /\ pending' = Tail(pending)
    /\ pc' = IF pending' = <<>> THEN "commit" ELSE "write"
    /\ UNCHANGED auxVars
    /\ UNCHANGED <<reads, now, entity, source, events, param, wm,
                   mode, window, fetched, result, runs, failedAt, wm0, parts0, changed, prev, expect>>

\* reading or writing the next partition fails: the run aborts
WriteFail ==
    /\ pc = "write"
    /\ pending # <<>>
    /\ pc' = "idle"
    /\ result' = "failed"
    /\ failedAt' = "write"
    /\ UNCHANGED auxVars
    /\ UNCHANGED <<other, reads, now, entity, source, events, param, wm, parts,
                   mode, window, fetched, pending, runs, wm0, parts0, changed, prev, expect>>

CommitEarly ==
    /\ pc \in {"write", "commit"}
    /\ wm' = NewSyncState(fetched)
    /\ pc' = "idle"
    /\ result' = "ok"
    /\ UNCHANGED auxVars
    /\ UNCHANGED <<other, reads, now, entity, source, events, param, parts,
                   mode, window, fetched, pending, runs, failedAt, wm0, parts0, changed, prev, expect>>

\* the sync state is updated with the timestamps of the processed data
Commit ==
    /\ pc = "commit"
    /\ wm' = NewSyncState(fetched)
    /\ pc' = "idle"
    /\ result' = "ok"
    /\ UNCHANGED auxVars
    /\ UNCHANGED <<other, reads, now, entity, source, events, param, parts,
                   mode, window, fetched, pending, runs, failedAt, wm0, parts0, changed, prev, expect>>

\* a failed update that leaves the item empty
CommitFailClears ==
    /\ pc = "commit"
    /\ wm' = NoWm
    /\ pc' = "idle"
    /\ result' = "ok"
    /\ failedAt' = "commit"
    /\ UNCHANGED auxVars
    /\ UNCHANGED <<other, reads, now, entity, source, events, param, parts,
                   mode, window, fetched, pending, runs, wm0, parts0, changed, prev, expect>>

\* the sync state update fails: a warning, the run still succeeds
CommitFail ==
    /\ pc = "commit"
    /\ pc' = "idle"
    /\ result' = "ok"
    /\ failedAt' = "commit"
    /\ UNCHANGED auxVars
    /\ UNCHANGED <<other, reads, now, entity, source, events, param, wm, parts,
                   mode, window, fetched, pending, runs, wm0, parts0, changed, prev, expect>>

\* the function's timeout ends the run where it stands
Abandon ==
    /\ pc \in {"fetch", "write", "commit"}
    /\ pc' = "idle"
    /\ result' = "failed"
    /\ failedAt' = pc
    /\ UNCHANGED auxVars
    /\ UNCHANGED <<other, reads, now, entity, source, events, param, wm, parts,
                   mode, window, fetched, pending, runs, wm0, parts0, changed, prev, expect>>

Next ==
    \/ CreateRecord
    \/ ModifyRecord
    \/ SetParameter
    \/ StartRun
    \/ FetchDone
    \/ FetchFail
    \/ WritePartition
    \/ WriteFail
    \/ Commit
    \/ CommitFail
    \/ Abandon

Spec == Init /\ [][Next]_vars

\* the same engine, followed over one more run
SpecRerun == InitRerun /\ [][Next]_vars
SpecLong == InitLong /\ [][Next]_vars

\* the same runs, observed for what their reads returned
NextReads ==
    \/ CreateRecord
    \/ ModifyRecord
    \/ SetParameter
    \/ StartRunLogged
    \/ FetchDone
    \/ FetchFail
    \/ WritePartition
    \/ WriteFail
    \/ Commit
    \/ CommitFail
    \/ Abandon

SpecReads == Init /\ [][NextReads]_vars

\* ------------------------------------------- the fetch, request by request
\* every variable but the fetcher's
coreVars == <<now, entity, source, events, param, wm, parts, pc, mode,
              window, fetched, pending, result, runs, failedAt, wm0, parts0, changed,
              prev, expect, other, reads, limit>>

RECURSIVE Pow2(_)
Pow2(n) == IF n = 0 THEN 1 ELSE 2 * Pow2(n - 1)

\* a delay that grows by the base with every retry
BackoffLinear(n) == BaseDelay * n

\* seconds to wait ahead of the n-th retry of a request, before jitter
Backoff(n) ==
    IF BaseDelay * Pow2(n - 1) < MaxDelay THEN BaseDelay * Pow2(n - 1) ELSE MaxDelay

TwoRecords == [i \in Ids |-> IF i = "D1" THEN [created |-> 0, modified |-> 0]
                                         ELSE [created |-> 25, modified |-> 25]]

\* a full run that has just started to fetch
Fetching ==
    /\ limit = Limits
    /\ now = 25
    /\ entity \in EntityTypes
    /\ source \in {InitialRecord, TwoRecords}
    /\ events = 0
    /\ param = DefaultParam
    /\ wm = NoWm
    /\ parts = <<>>
    /\ pc = "fetch"
    /\ mode = "full"
    /\ window = [from |-> StartDate, to |-> 25]
    /\ fetched = SortedById(Matching(source, window))
    /\ pending = SortedSeq(AffectedDates(entity, fetched))
    /\ result = "none"
    /\ runs = 1
    /\ failedAt = "none"
    /\ wm0 = NoWm
    /\ parts0 = <<>>
    /\ changed = FALSE
    /\ prev = NoRun
    /\ expect = <<>>
    /\ other = OtherTable
    /\ reads = AllRead

\* the run has sent the request for the first page of its window
InitRetry ==
    /\ Fetching
    /\ \E n \in 1..MaxPages :
          fetcher = [st |-> "request", page |-> 1, pages |-> n, attempt |-> 0, waited |-> 0]
    /\ pacer = NoPacer
    /\ split = NoSplit
    /\ act = NoActivity
    /\ race = NoRace
    /\ cred = NoCred
    /\ query = NoQuery
    /\ flow = NoFlow
    /\ norm = NoNorm

\* the API answers the request with a page
Respond200 ==
    /\ fetcher.st = "request"
    /\ fetcher' = IF fetcher.page < fetcher.pages
                  THEN [fetcher EXCEPT !.page = @ + 1, !.attempt = 0, !.waited = 0]
                  ELSE [fetcher EXCEPT !.st = "success"]
    /\ UNCHANGED <<coreVars, pacer, split, act, race, cred, norm, flow, query>>

\* the API answers 429 or a transient server error: back off and retry, or
\* give up once the retries are used up
RespondTransient ==
    /\ fetcher.st = "request"
    /\ \E code \in {429, 500, 503} :
          fetcher' = IF fetcher.attempt < MaxRetries
                     THEN [fetcher EXCEPT !.st = "wait", !.attempt = @ + 1]
                     ELSE [fetcher EXCEPT !.st = "failed"]
    /\ UNCHANGED <<coreVars, pacer, split, act, race, cred, norm, flow, query>>

\* the backoff delay has passed: the request is sent again
WaitOver ==
    /\ fetcher.st = "wait"
    /\ fetcher' = [fetcher EXCEPT !.st = "request",
                                  !.waited = @ + Backoff(fetcher.attempt)]
    /\ UNCHANGED <<coreVars, pacer, split, act, race, cred, norm, flow, query>>

\* the fetch succeeded: the rows go to the writer
FetchSucceeded == fetcher.st = "success" /\ FetchDone

\* the fetch failed: the error ends the run
FetchExhausted == fetcher.st = "failed" /\ FetchFail

NextRetry ==
    \/ Respond200
    \/ RespondTransient
    \/ WaitOver
    \/ FetchSucceeded
    \/ FetchExhausted
    \/ WritePartition
    \/ Commit

\* every step that can be taken is taken in the end
SpecRetry == InitRetry /\ [][NextRetry]_vars /\ WF_vars(NextRetry)

\* ------------------------------------------- the pacing of the requests
\* Time is counted in ticks of a tenth of a second.
MinGap == TicksPerSecond \div RateCeiling

\* every sub-window fetch paces its own requests
OwnPacer(f) == f

\* the pacer a fetch asks before it sends: one for the whole run
PacerOf(f) == "all"

\* requests sent in the second that starts at tick t
SentIn(t) == {i \in DOMAIN pacer.sent : t <= pacer.sent[i] /\ pacer.sent[i] < t + TicksPerSecond}

\* a run whose window was split in two sub-windows, fetched side by side
InitPacer ==
    /\ Fetching
    /\ fetcher = NoFetcher
    /\ \E l \in [Fetchers -> 1..MaxPages] :
          pacer = NewPacer(l)
    /\ split = NoSplit
    /\ act = NoActivity
    /\ race = NoRace
    /\ cred = NoCred
    /\ query = NoQuery
    /\ flow = NoFlow
    /\ norm = NoNorm

\* a fetch sends its next request (a first try or a retry) once the pacer
\* lets it through
Send(f) ==
    /\ pacer.st[f] = "ready"
    /\ pacer.clock >= pacer.nextFree[PacerOf(f)]
    /\ pacer' = [pacer EXCEPT !.st[f] = "inflight",
                              !.sent = Append(@, pacer.clock),
                              !.nextFree[PacerOf(f)] = pacer.clock + MinGap]
    /\ UNCHANGED <<coreVars, fetcher, split, act, race, cred, norm, flow, query>>

\* the request is answered with a page
Paged(f) ==
    /\ pacer.st[f] = "inflight"
    /\ pacer' = [pacer EXCEPT !.left[f] = @ - 1,
                              !.st[f] = IF pacer.left[f] = 1 THEN "done" ELSE "ready"]
    /\ UNCHANGED <<coreVars, fetcher, split, act, race, cred, norm, flow, query>>

\* the request is answered with 429 or a server error: it is sent again
\* after its backoff wait, whose length is left open here
Refused(f) ==
    /\ pacer.st[f] = "inflight"
    /\ pacer.retries < MaxRetries
    /\ pacer' = [pacer EXCEPT !.st[f] = "ready", !.retries = @ + 1]
    /\ UNCHANGED <<coreVars, fetcher, split, act, race, cred, norm, flow, query>>

\* a tenth of a second passes
Tick ==
    /\ pacer.clock < MaxClock
    /\ pacer' = [pacer EXCEPT !.clock = @ + 1]
    /\ UNCHANGED <<coreVars, fetcher, split, act, race, cred, norm, flow, query>>

NextPacer ==
    \/ \E f \in Fetchers : Send(f)
    \/ \E f \in Fetchers : Paged(f)
    \/ \E f \in Fetchers : Refused(f)
    \/ Tick

SpecPacer == InitPacer /\ [][NextPacer]_vars

\* ------------------------------------------- the splitting of a window
\* Records are numbered; recs[r] is the instant of record r, at the
\* resolution of the search filter.  A window holds both its ends.
InWindow(recs, w) == {r \in DOMAIN recs : w.from <= recs[r] /\ recs[r] <= w.to}

Count(recs, w) == Cardinality(InWindow(recs, w))

\* binary date-range splitting: a window over the cap is cut in two halves,
\* down to windows of one instant, which cannot be cut
RECURSIVE SplitWindow(_, _)
SplitWindow(recs, w) ==
    IF Count(recs, w) <= MaxResults \/ w.from = w.to
    THEN <<w>>
    ELSE LET mid == (w.from + w.to) \div 2
         IN  SplitWindow(recs, [from |-> w.from, to |-> mid])
               \o SplitWindow(recs, [from |-> mid + 1, to |-> w.to])

RECURSIVE Ascending(_)
Ascending(S) ==
    IF S = {} THEN <<>>
    ELSE LET m == CHOOSE x \in S : \A y \in S : x <= y
         IN  <<m>> \o Ascending(S \ {m})

\* the pages of one query: its matching records, of which the search API
\* returns no more than the cap
Results(recs, w) ==
    LET all == Ascending(InWindow(recs, w))
    IN  IF Len(all) <= MaxResults THEN all ELSE SubSeq(all, 1, MaxResults)

InitSplit ==
    /\ Fetching
    /\ fetcher = NoFetcher
    /\ pacer = NoPacer
    /\ \E n \in 1..MaxRecords, a \in 0..MaxInstant, b \in 0..MaxInstant :
          /\ a <= b
          /\ \E r \in [1..n -> 0..MaxInstant] :
                split = [recs |-> r, win |-> [from |-> a, to |-> b], subs |-> <<>>,
                         got |-> <<>>, next |-> 1, st |-> "probe"]
    /\ act = NoActivity
    /\ race = NoRace
    /\ cred = NoCred
    /\ query = NoQuery
    /\ flow = NoFlow
    /\ norm = NoNorm

\* the count probe: a window over the cap is subdivided
Subdivide ==
    /\ split.st = "probe"
    /\ split' = [split EXCEPT !.subs = SplitWindow(split.recs, split.win), !.st = "fetch"]
    /\ UNCHANGED <<coreVars, fetcher, pacer, act, race, cred, norm, flow, query>>

\* the next sub-window, in window order, is fetched and its pages delivered
FetchSubWindow ==
    /\ split.st = "fetch"
    /\ split' = [split EXCEPT !.got = @ \o <<Results(split.recs, split.subs[split.next])>>,
                              !.next = @ + 1,
                              !.st = IF split.next = Len(split.subs) THEN "done" ELSE "fetch"]
    /\ UNCHANGED <<coreVars, fetcher, pacer, act, race, cred, norm, flow, query>>

NextSplit ==
    \/ Subdivide
    \/ FetchSubWindow

SpecSplit == InitSplit /\ [][NextSplit]_vars

\* ------------------------------------------- the category of an activity
Views == {"last3weeks_v2", "date_range", "last3weeks"}

ActivityTypes == {Null, "CALL", "call", "EMAIL", "EMAIL_SENT", "FORWARDED_EMAIL",
                  "INCOMING_EMAIL", "LINKEDIN", "SMS", "TEXT", "WHATSAPP", "MEETING",
                  "TASK", "NOTE", "Note", "COMMUNICATION"}
Words == {"LinkedIn", "whatsapp"}
Texts == {NullText} \cup {Text(ws) : ws \in SUBSET Words}

\* upper(), lower(): NULL stays NULL
Upper(s) == CASE s = "call" -> "CALL" [] s = "Note" -> "NOTE" [] OTHER -> s
LowerWord(w) == CASE w = "LinkedIn" -> "linkedin" [] OTHER -> w
Lower(t) == [t EXCEPT !.words = {LowerWord(w) : w \in @}]

\* coalesce(x, '')
Coalesce(t) == IF t.null THEN Text({}) ELSE t
\* a || b : NULL when an operand is NULL
Concat(a, b) == IF a.null \/ b.null THEN NullText ELSE Text(a.words \cup b.words)
\* t LIKE '%kw%' : not true of NULL
Like(t, kw) == ~t.null /\ kw \in t.words

\* the inner CASE of the EMAIL family
EmailCategory(r, replies) ==
    IF Upper(r.email_direction) \in replies THEN "Email reply from contact"
    ELSE "Email sent to contact"

\* the ELSE branch: communication source, then the raw type
BySource(r) ==
    IF Like(Lower(Coalesce(r.communication_source)), "linkedin") THEN "LinkedIn Message"
    ELSE IF Like(Lower(Coalesce(r.communication_source)), "whatsapp") THEN "WhatsApp"
    ELSE IF r.activity_type = Null THEN "Unknown" ELSE r.activity_type

\* what each view scans of a NOTE
NoteContent(view, r, kw) ==
    CASE view = "last3weeks_v2" ->
            \/ Like(Lower(Coalesce(r.note_subject)), kw)
            \/ Like(Lower(Coalesce(r.note_body)), kw)
            \/ Like(Lower(Coalesce(r.communication_body)), kw)
      [] view = "date_range" ->
            Like(Lower(Concat(Concat(Coalesce(r.note_subject), r.note_body),
                              r.communication_body)), kw)
      [] view = "last3weeks" ->
            \/ Like(Lower(Coalesce(r.note_body)), kw)
            \/ Like(Lower(Coalesce(r.communication_body)), kw)

ByContent(view, r) ==
    IF NoteContent(view, r, "linkedin") THEN "LinkedIn Message"
    ELSE IF NoteContent(view, r, "whatsapp") THEN "WhatsApp"
    ELSE "Note"

\* activity_category of the two views that share their type codes
CategoryWide(view, r) ==
    LET t == Upper(r.activity_type)
    IN  IF t = "CALL" THEN "Call"
        ELSE IF t \in {"EMAIL", "EMAIL_SENT", "OUTBOUND_EMAIL", "FORWARDED_EMAIL"}
             THEN IF r.email_sent = "false" THEN "Email reply from contact"
                  ELSE EmailCategory(r, {"INCOMING_EMAIL", "INCOMING", "REPLY", "REPLIED"})
        ELSE IF t = "INCOMING_EMAIL" THEN "Email reply from contact"
        ELSE IF t \in {"LINKEDIN_MESSAGE", "LINKEDIN"} THEN "LinkedIn Message"
        ELSE IF t \in {"SMS", "TEXT", "TEXT_MESSAGE"} THEN "SMS"
        ELSE IF t \in {"WHATS_APP", "WHATSAPP", "WHATS-APP", "WHATS APP"} THEN "WhatsApp"
        ELSE IF t = "MEETING" THEN "Meeting"
        ELSE IF t = "TASK" THEN "Task"
        ELSE IF t = "NOTE" THEN ByContent(view, r)
        ELSE BySource(r)

\* activity_category of activity_volume_by_owner_type_last3weeks
CategoryLast3Weeks(view, r) ==
    LET t == Upper(r.activity_type)
    IN  IF t = "CALL" THEN "Call"
        ELSE IF t = "EMAIL" THEN EmailCategory(r, {"INCOMING_EMAIL"})
        ELSE IF t = "INCOMING_EMAIL" THEN "Email reply from contact"
        ELSE IF t = "FORWARDED_EMAIL" THEN "Forwarded email"
        ELSE IF t \in {"LINKEDIN_MESSAGE", "LINKEDIN"} THEN "LinkedIn Message"
        ELSE IF t = "SMS" THEN "SMS"
        ELSE IF t \in {"WHATS_APP", "WHATSAPP", "WHATS-APP", "WHATS APP"} THEN "WhatsApp"
        ELSE IF t = "MEETING" THEN "Meeting"
        ELSE IF t = "TASK" THEN "Task"
        ELSE IF t = "NOTE" THEN ByContent(view, r)
        ELSE BySource(r)

Category(view, r) ==
    IF view = "last3weeks" THEN CategoryLast3Weeks(view, r) ELSE CategoryWide(view, r)

InitActivity ==
    /\ Fetching
    /\ entity = "deals"
    /\ source = InitialRecord
    /\ fetcher = NoFetcher
    /\ pacer = NoPacer
    /\ split = NoSplit
    /\ \E v \in Views, t \in ActivityTypes, dir \in {Null, "INCOMING_EMAIL", "EMAIL"},
          sent \in {Null, "false"}, subj \in {NullText, Text({"LinkedIn"})},
          body \in Texts, cbody \in Texts, src \in Texts :
          act = [view |-> v, st |-> "row", category |-> Null,
                 row |-> [activity_type |-> t, email_direction |-> dir, email_sent |-> sent,
                          note_subject |-> subj, note_body |-> body,
                          communication_body |-> cbody, communication_source |-> src]]
    /\ race = NoRace
    /\ cred = NoCred
    /\ query = NoQuery
    /\ flow = NoFlow
    /\ norm = NoNorm

\* the view computes the category of the row
Classify ==
    /\ act.st = "row"
    /\ act' = [act EXCEPT !.category = Category(act.view, act.row), !.st = "done"]
    /\ UNCHANGED <<coreVars, fetcher, pacer, split, race, cred, norm, flow, query>>

NextActivity == Classify

SpecActivity == InitActivity /\ [][NextActivity]_vars

\* ------------------------------------------- two runs at the same time
\* every variable of a run but the partitions
besideParts == <<now, entity, source, events, param, wm, pc, mode,
                 window, fetched, pending, result, runs, failedAt, wm0, parts0, changed,
                 prev, expect, other, reads, limit>>

\* the new objects are put next to the ones that are there
PutObjects(p, d, rows) == OverwritePartition(p, d, Existing(p, d) \o rows)

\* the object store replaces the contents of partition d in one step
AtomicReplace(p, d, rows) == OverwritePartition(p, d, rows)

ModifiedRecord == [i \in {"D1"} |-> [created |-> 0, modified |-> 25]]
Snapshots == {InitialRecord, ModifiedRecord, TwoRecords}

\* two runs of the entity type have fetched, each its own state of the
\* source, and start to write with the merge strategy
InitRace ==
    /\ Fetching
    /\ fetcher = NoFetcher
    /\ pacer = NoPacer
    /\ split = NoSplit
    /\ act = NoActivity
    /\ \E s \in [RunIds -> Snapshots] :
          LET got == [r \in RunIds |-> SortedById(Matching(s[r], window))]
          IN  race = [rows |-> got,
                      todo |-> [r \in RunIds |-> SortedSeq(AffectedDates(entity, got[r]))],
                      out |-> [r \in RunIds |-> <<>>],
                      st |-> [r \in RunIds |-> "read"],
                      wrote |-> [r \in RunIds |-> <<>>],
                      last |-> <<>>, crossed |-> FALSE]
    /\ cred = NoCred
    /\ query = NoQuery
    /\ flow = NoFlow
    /\ norm = NoNorm

\* run r reads its next affected partition and merges its rows into it
ReadPartition(r) ==
    /\ race.st[r] = "read"
    /\ race.todo[r] # <<>>
    /\ LET d == Head(race.todo[r])
       IN  race' = [race EXCEPT
                      !.out[r] = MergedPartition("merge", entity, parts, race.rows[r], d),
                      !.st[r] = "replace",
                      !.crossed = @ \/ \E q \in RunIds \ {r} :
                                        race.st[q] = "replace" /\ Head(race.todo[q]) = d]
    /\ UNCHANGED <<parts, besideParts, fetcher, pacer, split, act, cred, norm, flow, query>>

\* run r writes the merged rows back: a whole-partition replace
ReplacePartition(r) ==
    /\ race.st[r] = "replace"
    /\ LET d == Head(race.todo[r])
       IN  /\ parts' = AtomicReplace(parts, d, race.out[r])
           /\ race' = [race EXCEPT
                         !.wrote[r] = OverwritePartition(@, d, race.out[r]),
                         !.last = OverwritePartition(@, d, r),
                         !.out[r] = <<>>,
                         !.todo[r] = Tail(@),
                         !.st[r] = IF Len(race.todo[r]) = 1 THEN "done" ELSE "read"]
    /\ UNCHANGED <<besideParts, fetcher, pacer, split, act, cred, norm, flow, query>>

NextRace ==
    \/ \E r \in RunIds : ReadPartition(r)
    \/ \E r \in RunIds : ReplacePartition(r)

SpecRace == InitRace /\ [][NextRace]_vars

\* ------------------------------------------- the credential provider
\* Time is counted in minutes.  reads holds the times at which the secret
\* store handed out the secret, last what the last call of getToken did.
AlwaysStale(c) == FALSE

\* the cached token is served while its age is below the TTL
IsFresh(c) == c.cached /\ c.clock - c.fetchedAt < TokenTtl

\* the process after a call of getToken(); ok tells whether the secret store
\* answers, if it is asked
AfterGetToken(c, ok) ==
    LET call == [had |-> c.cached, age |-> c.clock - c.fetchedAt,
                 n |-> Len(c.reads), stored |-> c.secret]
    IN  IF IsFresh(c)
        THEN [c EXCEPT !.last = [kind |-> "hit", tok |-> c.token] @@ call]
        ELSE IF ok
        THEN [c EXCEPT !.cached = TRUE, !.token = c.secret,
                       !.fetchedAt = c.clock,
                       !.reads = Append(@, c.clock),
                       !.last = [kind |-> "miss", tok |-> c.secret] @@ call]
        ELSE [c EXCEPT !.last = [kind |-> "error", tok |-> 0] @@ call]

\* getToken()
GetToken(ok) ==
    /\ cred' = AfterGetToken(cred, ok)
    /\ UNCHANGED <<coreVars, fetcher, pacer, split, act, race, norm, flow, query>>

\* the secret is rotated in the store
RotateSecret ==
    /\ cred.secret <= MaxRotations
    /\ cred' = [cred EXCEPT !.secret = @ + 1]
    /\ UNCHANGED <<coreVars, fetcher, pacer, split, act, race, norm, flow, query>>

\* a minute passes
Minute ==
    /\ cred.clock < MaxMinutes
    /\ cred' = [cred EXCEPT !.clock = @ + 1]
    /\ UNCHANGED <<coreVars, fetcher, pacer, split, act, race, norm, flow, query>>

InitCred ==
    /\ Fetching
    /\ fetcher = NoFetcher
    /\ pacer = NoPacer
    /\ split = NoSplit
    /\ act = NoActivity
    /\ race = NoRace
    /\ cred = NewProcess
    /\ query = NoQuery
    /\ flow = NoFlow
    /\ norm = NoNorm

NextCred ==
    \/ \E ok \in BOOLEAN : GetToken(ok)
    \/ RotateSecret
    \/ Minute

SpecCred == InitCred /\ [][NextCred]_vars

\* ------------------------------------------- a fetch and its credential
\* the credential error is handled as a transient one: back off, ask again
RetryCredentialError(f) == [f EXCEPT !.st = "wait", !.attempt = @ + 1]

\* the fetcher after getToken() raised: the fetch is over, nothing is retried
OnCredentialError(f) == [f EXCEPT !.st = "denied"]

\* a full run is about to ask for the token of its first request
InitAuth ==
    /\ Fetching
    /\ \E n \in 1..MaxPages :
          fetcher = [st |-> "token", page |-> 1, pages |-> n, attempt |-> 0, waited |-> 0]
    /\ pacer = NoPacer
    /\ split = NoSplit
    /\ act = NoActivity
    /\ race = NoRace
    /\ cred = NewProcess
    /\ query = NoQuery
    /\ flow = NoFlow
    /\ norm = NoNorm

\* the fetcher asks the credential provider for the token of its next page
AcquireToken(ok) ==
    /\ fetcher.st = "token"
    /\ cred' = AfterGetToken(cred, ok)
    /\ fetcher' = IF cred'.last.kind = "error"
                  THEN OnCredentialError(fetcher)
                  ELSE [fetcher EXCEPT !.st = "request"]
    /\ UNCHANGED <<coreVars, pacer, split, act, race, norm, flow, query>>

\* the API answers the request with a page; the next page needs the token
PageArrived ==
    /\ fetcher.st = "request"
    /\ fetcher' = IF fetcher.page < fetcher.pages
                  THEN [fetcher EXCEPT !.page = @ + 1, !.attempt = 0, !.waited = 0,
                                       !.st = "token"]
                  ELSE [fetcher EXCEPT !.st = "success"]
    /\ UNCHANGED <<coreVars, pacer, split, act, race, cred, norm, flow, query>>

\* the credential error ends the run
CredentialFailure == fetcher.st = "denied" /\ FetchFail

\* a minute passes while the run fetches
MinuteOfRun == pc = "fetch" /\ fetcher.st \in {"token", "request", "wait"} /\ Minute

NextAuth ==
    \/ \E ok \in BOOLEAN : AcquireToken(ok)
    \/ PageArrived
    \/ RespondTransient
    \/ WaitOver
    \/ MinuteOfRun
    \/ FetchSucceeded
    \/ FetchExhausted
    \/ CredentialFailure
    \/ WritePartition
    \/ Commit

\* a step of the run is taken whenever one can be
RunProgress == <<now, entity, source, events, param, wm, parts, pc, mode,
                 window, fetched, pending, result, runs, failedAt, wm0, parts0, changed,
                 prev, expect, other, reads, fetcher>>
SpecAuth == InitAuth /\ [][NextAuth]_vars /\ WF_RunProgress(NextAuth)

\* ------------------------------------------- the normalizer in a run
\* A raw record is the source record and whether it can be normalized.
RawRecords(src, w, ok) ==
    LET rows == SortedById(Matching(src, w))
    IN  [k \in 1..Len(rows) |-> [rec |-> rows[k], ok |-> ok[rows[k].id]]]

\* normalize(RawRecord): the flat row, or an error for a malformed record
Normalize(r) == IF r.ok THEN [st |-> "row", row |-> r.rec] ELSE [st |-> "error"]

\* the malformed record is left out and nothing is counted
DropRecord(n) == [n EXCEPT !.next = @ + 1]

\* the malformed record is left out and counted
SkipRecord(n) == [n EXCEPT !.next = @ + 1, !.skipped = @ + 1]

FirstSync == NewSyncState(<<[id |-> "D1", created |-> 0, modified |-> 0]>>)

\* a run, full or incremental, whose pages have arrived; in the incremental
\* case an earlier run has stored D1 and its sync state
InitNorm ==
    /\ limit = Limits
    /\ now = 25
    /\ entity \in EntityTypes
    /\ source \in Snapshots
    /\ events = 0
    /\ mode \in {"full", "merge"}
    /\ param = IF mode = "merge" THEN "true" ELSE DefaultParam
    /\ wm = IF mode = "merge" THEN FirstSync ELSE NoWm
    /\ parts = IF mode = "merge" THEN OtherTable ELSE <<>>
    /\ pc = "fetch"
    /\ window = GetWindow(TRUE, TRUE, param, wm, now)
    /\ fetched = <<>>
    /\ pending = <<>>
    /\ result = "none"
    /\ runs = 1
    /\ failedAt = "none"
    /\ wm0 = wm
    /\ parts0 = parts
    /\ changed = FALSE
    /\ prev = NoRun
    /\ expect = <<>>
    /\ other = OtherTable
    /\ reads = AllRead
    /\ fetcher = NoFetcher
    /\ pacer = NoPacer
    /\ split = NoSplit
    /\ act = NoActivity
    /\ race = NoRace
    /\ cred = NoCred
    /\ query = NoQuery
    /\ flow = NoFlow
    /\ \E ok \in [DOMAIN source -> BOOLEAN] :
          norm = [st |-> "raw", raw |-> RawRecords(source, window, ok), next |-> 1,
                  skipped |-> 0]

\* the next raw record goes through the normalizer
NormalizeRecord ==
    /\ pc = "fetch"
    /\ norm.st = "raw"
    /\ norm.next <= Len(norm.raw)
    /\ LET n == Normalize(norm.raw[norm.next])
       IN  IF n.st = "row"
           THEN /\ fetched' = Append(fetched, n.row)
                /\ norm' = [norm EXCEPT !.next = @ + 1]
           ELSE /\ fetched' = fetched
                /\ norm' = SkipRecord(norm)
    /\ pending' = SortedSeq(AffectedDates(entity, fetched'))
    /\ UNCHANGED <<now, entity, source, events, param, wm, parts, pc, mode, window,
                   result, runs, failedAt, wm0, parts0, changed, prev, expect, other,
                   reads, limit, fetcher, pacer, split, act, race, cred, flow, query>>

\* every raw record went through: the rows go to the writer
RowsReady == norm.st = "raw" /\ norm.next > Len(norm.raw) /\ FetchDone

NextNorm ==
    \/ NormalizeRecord
    \/ RowsReady
    \/ WritePartition
    \/ Commit

SpecNorm == InitNorm /\ [][NextNorm]_vars

\* ------------------------------------------- the choice of the strategy
\* the sync state item after a run that processed no record
EmptySync == NewSyncState(<<>>)

\* a deployment whose parameter holds any of its allowed values, with or
\* without the sync state and the partition of an earlier run
InitMode ==
    /\ limit = Limits
    /\ now = 25
    /\ entity \in EntityTypes
    /\ source \in {InitialRecord, TwoRecords}
    /\ events = 0
    /\ param \in EnablingValues \cup DisablingValues
    /\ wm \in {NoWm, EmptySync, FirstSync}
    /\ parts = IF wm = FirstSync THEN OtherTable ELSE <<>>
    /\ pc = "idle"
    /\ mode = "full"
    /\ window = [from |-> StartDate, to |-> 0]
    /\ fetched = <<>>
    /\ pending = <<>>
    /\ result = "none"
    /\ runs = 0
    /\ failedAt = "none"
    /\ wm0 = wm
    /\ parts0 = parts
    /\ changed = FALSE
    /\ prev = NoRun
    /\ expect = <<>>
    /\ other = OtherTable
    /\ reads = AllRead
    /\ fetcher = NoFetcher
    /\ pacer = NoPacer
    /\ split = NoSplit
    /\ act = NoActivity
    /\ race = NoRace
    /\ cred = NoCred
    /\ query = NoQuery
    /\ flow = NoFlow
    /\ norm = NoNorm

NextMode ==
    \/ StartRunLogged
    \/ FetchDone
    \/ WritePartition
    \/ Commit

SpecMode == InitMode /\ [][NextMode]_vars

\* ------------------------------------------- the ingestion state machine
\* The states of the workflow chain, in the order of their .next() calls.
LambdaTasks == {"InvokeDealsFunction", "InvokeActivitiesFunction", "InvokeOwnersFunction",
                "InvokeCompaniesFunction", "InvokePipelinesFunction",
                "InvokeContactsFunction"}
CrawlerTasks == {"StartCuratedCrawler", "StartDimCrawler"}
WaitStates == {"Wait1", "Wait2", "Wait3", "Wait4", "Wait5", "Wait6", "Wait7"}

\* a chain that starts with the contacts function
definitionContactsFirst ==
    <<"InvokeContactsFunction", "Wait1", "InvokeActivitiesFunction", "Wait2",
      "InvokeOwnersFunction", "Wait3", "InvokeCompaniesFunction", "Wait4",
      "InvokePipelinesFunction", "Wait5", "InvokeDealsFunction", "Wait6",
      "StartCuratedCrawler", "Wait7", "StartDimCrawler",
      "PrepareSuccessMessage", "SendSuccessNotification">>

definition ==
    <<"InvokeDealsFunction", "Wait1", "InvokeActivitiesFunction", "Wait2",
      "InvokeOwnersFunction", "Wait3", "InvokeCompaniesFunction", "Wait4",
      "InvokePipelinesFunction", "Wait5", "InvokeContactsFunction", "Wait6",
      "StartCuratedCrawler", "Wait7", "StartDimCrawler",
      "PrepareSuccessMessage", "SendSuccessNotification">>

\* the state the execution is in
Current == definition[flow.at]

\* an error is caught in the Lambda tasks only
CaughtInLambdaTasks(state) == state \in LambdaTasks

\* tryWorkflow.addCatch(..., errors: ALL): an error of any state of the
\* branch goes to the failure handler
Caught(state) == TRUE

\* the execution after state Current has succeeded
Succeeded(f) ==
    [f EXCEPT !.at = @ + 1, !.st = "ready", !.attempt = 0, !.inflight = {},
              !.done = IF Current \in WaitStates \cup {"PrepareSuccessMessage"}
                       THEN @ ELSE Append(@, Current)]

\* the execution after state Current has failed for good
Failed(f) ==
    [f EXCEPT !.st = IF Caught(Current) THEN "caught" ELSE "failed",
              !.inflight = {}, !.failed = Current]

\* the scheduler (or an operator) has started an execution
InitFlow ==
    /\ Fetching
    /\ fetcher = NoFetcher
    /\ pacer = NoPacer
    /\ split = NoSplit
    /\ act = NoActivity
    /\ race = NoRace
    /\ cred = NoCred
    /\ query = NoQuery
    /\ norm = NoNorm
    /\ flow = [at |-> 1, st |-> "ready", attempt |-> 0, inflight |-> {}, again |-> {},
               started |-> <<>>, done |-> <<>>, published |-> {}, failed |-> "none",
               alerted |-> FALSE]

\* a LambdaInvoke task calls its function, for the first time or as a retry
Invoke ==
    /\ flow.st = "ready"
    /\ Current \in LambdaTasks
    /\ flow' = [flow EXCEPT !.st = "running",
                            !.inflight = @ \cup {Current},
                            !.started = IF flow.attempt = 0 THEN Append(@, Current) ELSE @,
                            !.again = IF flow.attempt = 0 THEN @ ELSE @ \cup {Current}]
    /\ UNCHANGED <<coreVars, fetcher, pacer, split, act, race, cred, norm, query>>

\* the function returns
Returns ==
    /\ flow.st = "running"
    /\ flow' = Succeeded(flow)
    /\ UNCHANGED <<coreVars, fetcher, pacer, split, act, race, cred, norm, query>>

\* the function raises or runs into its timeout: the task fails
FunctionError ==
    /\ flow.st = "running"
    /\ flow' = Failed(flow)
    /\ UNCHANGED <<coreVars, fetcher, pacer, split, act, race, cred, norm, query>>

\* the Lambda service fails the call (Lambda.ServiceException and the like):
\* retryOnServiceExceptions is left at its default, so the task is retried,
\* up to 6 times, before it fails
ServiceException ==
    /\ flow.st = "running"
    /\ flow' = IF flow.attempt < RetryMaxAttempts
               THEN [flow EXCEPT !.st = "backoff", !.attempt = @ + 1, !.inflight = {}]
               ELSE Failed(flow)
    /\ UNCHANGED <<coreVars, fetcher, pacer, split, act, race, cred, norm, query>>

\* the retry interval has passed
RetryInterval ==
    /\ flow.st = "backoff"
    /\ flow' = [flow EXCEPT !.st = "ready"]
    /\ UNCHANGED <<coreVars, fetcher, pacer, split, act, race, cred, norm, query>>

\* a Wait state (10 seconds) or the Pass state that prepares the message
Pass ==
    /\ flow.st = "ready"
    /\ Current \in WaitStates \cup {"PrepareSuccessMessage"}
    /\ flow' = Succeeded(flow)
    /\ UNCHANGED <<coreVars, fetcher, pacer, split, act, race, cred, norm, query>>

\* glue:startCrawler is called: the crawler starts, or the call fails
StartCrawler(ok) ==
    /\ flow.st = "ready"
    /\ Current \in CrawlerTasks
    /\ flow' = IF ok
               THEN Succeeded([flow EXCEPT !.started = Append(@, Current)])
               ELSE Failed([flow EXCEPT !.started = Append(@, Current)])
    /\ UNCHANGED <<coreVars, fetcher, pacer, split, act, race, cred, norm, query>>

\* SendSuccessNotification, the last state of the branch
PublishSuccess(ok) ==
    /\ flow.st = "ready"
    /\ Current = "SendSuccessNotification"
    /\ flow' = IF ok
               THEN [flow EXCEPT !.st = "succeeded",
                                 !.started = Append(@, Current),
                                 !.done = Append(@, Current),
                                 !.published = @ \cup {"success"}]
               ELSE Failed([flow EXCEPT !.started = Append(@, Current)])
    /\ UNCHANGED <<coreVars, fetcher, pacer, split, act, race, cred, norm, query>>

\* the catch of tryWorkflow: PrepareFailureMessage
Catch ==
    /\ flow.st = "caught"
    /\ flow' = [flow EXCEPT !.st = "notify"]
    /\ UNCHANGED <<coreVars, fetcher, pacer, split, act, race, cred, norm, query>>

\* SendFailureNotification, which no catch covers
PublishFailure(ok) ==
    /\ flow.st = "notify"
    /\ flow' = IF ok
               THEN [flow EXCEPT !.st = "handled", !.alerted = TRUE,
                                 !.published = @ \cup {"failure"}]
               ELSE [flow EXCEPT !.st = "failed", !.alerted = TRUE]
    /\ UNCHANGED <<coreVars, fetcher, pacer, split, act, race, cred, norm, query>>

NextFlow ==
    \/ Invoke
    \/ Returns
    \/ FunctionError
    \/ ServiceException
    \/ RetryInterval
    \/ Pass
    \/ \E ok \in BOOLEAN : StartCrawler(ok)
    \/ \E ok \in BOOLEAN : PublishSuccess(ok)
    \/ Catch
    \/ \E ok \in BOOLEAN : PublishFailure(ok)

\* a state machine does not stop between two states
SpecFlow == InitFlow /\ [][NextFlow]_vars /\ WF_vars(NextFlow)

\* ------------------------------------------- the splitting, cut by cut
\* every window over the cap is cut again
AlwaysSplit(w) == TRUE

\* a window can be cut into smaller ones while it spans two instants
CanSplit(w) == w.from < w.to

\* the fetcher has a window to fetch and has not probed it yet
InitSubdivision ==
    /\ Fetching
    /\ entity = "deals"
    /\ source = InitialRecord
    /\ fetcher = NoFetcher
    /\ pacer = NoPacer
    /\ \E n \in 1..MaxRecords, a \in 0..MaxInstant, b \in 0..MaxInstant :
          /\ a <= b
          /\ \E r \in [1..n -> 0..MaxInstant] :
                split = [recs |-> r, win |-> [from |-> a, to |-> b],
                         todo |-> <<[from |-> a, to |-> b]>>, subs |-> <<>>,
                         got |-> <<>>, next |-> 1, cuts |-> 0, st |-> "probe"]
    /\ act = NoActivity
    /\ race = NoRace
    /\ cred = NoCred
    /\ query = NoQuery
    /\ norm = NoNorm
    /\ flow = NoFlow

\* the count probe of the next window: over the cap it is cut in two halves,
\* which are probed in turn; otherwise it is a sub-window to fetch
ProbeWindow ==
    /\ split.st = "probe"
    /\ LET w == Head(split.todo)
           mid == (w.from + w.to) \div 2
           cut == Count(split.recs, w) > MaxResults /\ CanSplit(w)
           todo == IF cut
                   THEN <<[from |-> w.from, to |-> mid], [from |-> mid + 1, to |-> w.to]>>
                           \o Tail(split.todo)
                   ELSE Tail(split.todo)
       IN  split' = [split EXCEPT !.todo = todo,
                                  !.subs = IF cut THEN @ ELSE Append(@, w),
                                  !.cuts = IF cut THEN @ + 1 ELSE @,
                                  !.st = IF todo = <<>> THEN "fetch" ELSE "probe"]
    /\ UNCHANGED <<coreVars, fetcher, pacer, act, race, cred, norm, flow, query>>

\* the fetch of the next sub-window fails for good: so does the run's fetch
SubWindowFails ==
    /\ split.st = "fetch"
    /\ split' = [split EXCEPT !.st = "failed"]
    /\ UNCHANGED <<coreVars, fetcher, pacer, act, race, cred, norm, flow, query>>

NextSubdivision ==
    \/ ProbeWindow
    \/ FetchSubWindow
    \/ SubWindowFails

\* the fetcher goes on while it has a window to probe or to fetch
SpecSubdivision == InitSubdivision /\ [][NextSubdivision]_vars /\ WF_vars(NextSubdivision)

\* ------------------------------------------- runs over a CRM that loses records
\* two records modified within the overlap of each other
NearRecords == [i \in Ids |-> IF i = "D1" THEN [created |-> 0, modified |-> 24]
                                          ELSE [created |-> 25, modified |-> 25]]

\* incremental sync is enabled and nothing was ingested yet
InitDeletions ==
    /\ limit = Limits
    /\ now = 25
    /\ entity \in EntityTypes
    /\ source \in {InitialRecord, TwoRecords, NearRecords}
    /\ events = 0
    /\ param = "true"
    /\ wm = NoWm
    /\ parts = <<>>
    /\ pc = "idle"
    /\ mode = "full"
    /\ window = [from |-> StartDate, to |-> 0]
    /\ fetched = <<>>
    /\ pending = <<>>
    /\ result = "none"
    /\ runs = 0
    /\ failedAt = "none"
    /\ wm0 = NoWm
    /\ parts0 = <<>>
    /\ changed = FALSE
    /\ prev = NoRun
    /\ expect = <<>>
    /\ other = OtherTable
    /\ reads = AllRead
    /\ fetcher = NoFetcher
    /\ pacer = NoPacer
    /\ split = NoSplit
    /\ act = NoActivity
    /\ race = NoRace
    /\ cred = NoCred
    /\ query = NoQuery
    /\ flow = NoFlow
    /\ norm = NoNorm

\* a record is deleted in the CRM: the search returns it no more
DeleteRecord ==
    /\ events < limit.events
    /\ \E i \in DOMAIN source, d \in Deltas :
          /\ now' = now + d
          /\ source' = IF DOMAIN source = {i} THEN <<>>
                        ELSE [x \in (DOMAIN source) \ {i} |-> source[x]]
    /\ events' = events + 1
    /\ changed' = TRUE
    /\ UNCHANGED auxVars
    /\ UNCHANGED <<other, reads, entity, param, wm, parts, pc, mode, window, fetched, pending,
                   result, runs, failedAt, wm0, parts0, prev, expect>>

NextDeletions ==
    \/ DeleteRecord
    \/ ModifyRecord
    \/ StartRun
    \/ FetchDone
    \/ WritePartition
    \/ Commit

SpecDeletions == InitDeletions /\ [][NextDeletions]_vars

\* ------------------------------------------- two runs that both commit
\* what the run before the two has stored of D1
FirstStored(e) ==
    WriteAll("full", e, <<>>, <<[id |-> "D1", created |-> 0, modified |-> 0]>>, <<0>>)

\* an earlier run has stored D1 and its sync state; two incremental runs of
\* the entity type have read that sync state and fetched, each its own state
\* of the source
InitOverlap ==
    /\ limit = Limits
    /\ now = 25
    /\ entity \in EntityTypes
    /\ source = TwoRecords
    /\ events = 0
    /\ param = "true"
    /\ wm = FirstSync
    /\ parts = FirstStored(entity)
    /\ pc = "idle"
    /\ mode = "merge"
    /\ window = [from |-> IncrementalStart(FirstSync), to |-> 25]
    /\ fetched = <<>>
    /\ pending = <<>>
    /\ result = "none"
    /\ runs = 0
    /\ failedAt = "none"
    /\ wm0 = wm
    /\ parts0 = parts
    /\ changed = FALSE
    /\ prev = NoRun
    /\ expect = <<>>
    /\ other = OtherTable
    /\ reads = AllRead
    /\ fetcher = NoFetcher
    /\ pacer = NoPacer
    /\ split = NoSplit
    /\ act = NoActivity
    /\ \E s \in [RunIds -> Snapshots] :
          LET got == [r \in RunIds |-> SortedById(Matching(s[r], window))]
          IN  race = [rows |-> got,
                      todo |-> [r \in RunIds |-> SortedSeq(AffectedDates(entity, got[r]))],
                      out |-> [r \in RunIds |-> <<>>],
                      st |-> [r \in RunIds |-> "read"],
                      wrote |-> [r \in RunIds |-> <<>>],
                      last |-> <<>>, crossed |-> FALSE]
    /\ cred = NoCred
    /\ query = NoQuery
    /\ flow = NoFlow
    /\ norm = NoNorm

\* run r has written its partitions and updates the sync state with the
\* timestamps of the data it processed
CommitRun(r) ==
    /\ race.st[r] = "done"
    /\ wm' = NewSyncState(race.rows[r])
    /\ race' = [race EXCEPT !.st[r] = "committed"]
    /\ UNCHANGED <<now, entity, source, events, param, parts, pc, mode,
                   window, fetched, pending, result, runs, failedAt, wm0, parts0, changed,
                   prev, expect, other, reads, limit>>
    /\ UNCHANGED <<fetcher, pacer, split, act, cred, norm, flow, query>>

NextOverlap ==
    \/ \E r \in RunIds : ReadPartition(r)
    \/ \E r \in RunIds : ReplacePartition(r)
    \/ \E r \in RunIds : CommitRun(r)

SpecOverlap == InitOverlap /\ [][NextOverlap]_vars

\* ------------------------------------------- the deals_latest views
\* the files that define a view of the latest version of every deal
ViewFiles == {"sql/create_view_deals_latest.sql", "unnamed/part_002",
              "sql/create_view_deals_latest_clean.sql"}

\* stored versions of deals: created_at, last_modified_at (NoTs for NULL)
\* and the partition the writer puts them in
DealVersions ==
    {[id |-> i, created |-> c, modified |-> m, dt |-> DateOf(c)] :
        i \in Ids, c \in {0, 25}, m \in {NoTs, 0, 25, 26}} \ 
    {[id |-> i, created |-> 25, modified |-> 0, dt |-> DateOf(25)] : i \in Ids}

\* COALESCE(last_modified_at, created_at)
CoalesceModified(r) == IF r.modified # NoTs THEN r.modified ELSE r.created

\* the ORDER BY expression of the file's window
OrderBy(file, r) ==
    IF file = "unnamed/part_002" THEN CoalesceModified(r) ELSE r.created

\* can row r of the table get ROW_NUMBER() = 1 in its deal_id's window,
\* ordered descending: none of the deal's rows sorts before it, and rows that
\* sort equal are numbered in any order
MayBeFirst(file, rows, r) ==
    \A q \in rows : q.id = r.id => OrderBy(file, q) <= OrderBy(file, r)

\* the results the view can give for a table: the rows WHERE rn = 1
DealsLatest(file, rows) ==
    {out \in SUBSET rows :
        /\ \A r \in out : MayBeFirst(file, rows, r)
        /\ \A r \in rows : Cardinality({q \in out : q.id = r.id}) = 1}

\* a deals table of up to MaxRecords rows and the view created from one of
\* the files
InitQuery ==
    /\ Fetching
    /\ entity = "deals"
    /\ fetcher = NoFetcher
    /\ pacer = NoPacer
    /\ split = NoSplit
    /\ act = NoActivity
    /\ race = NoRace
    /\ cred = NoCred
    /\ norm = NoNorm
    /\ flow = NoFlow
    /\ \E file \in ViewFiles, rows \in SUBSET DealVersions :
          /\ Cardinality(rows) <= MaxRecords
          /\ query = [st |-> "table", file |-> file, rows |-> rows, out |-> {}]

\* SELECT * FROM the view
SelectView ==
    /\ query.st = "table"
    /\ \E out \in DealsLatest(query.file, query.rows) :
          query' = [query EXCEPT !.out = out, !.st = "done"]
    /\ UNCHANGED <<coreVars, fetcher, pacer, split, act, race, cred, norm, flow>>

NextQuery == SelectView

SpecQuery == InitQuery /\ [][NextQuery]_vars

\* ------------------------------------------- the writer on its own inputs
\* write_with_merge_strategy is a reusable method: it is handed any batch of
\* rows, among them rows older than the stored ones (a run that fetched
\* before another run wrote). One partition, keys unique on either side.
MergeRows == {[id |-> i, created |-> 0, modified |-> m] : i \in Ids, m \in {1, 2}}

UniqueSeqs(R) ==
    {s \in UNION {[1..n -> R] : n \in 0..Cardinality(Ids)} :
        \A i, j \in 1..Len(s) : s[i].id = s[j].id => i = j}

InitMerge ==
    /\ now = 2
    /\ entity = "deals"
    /\ source = <<>>
    /\ events = 0
    /\ param = "true"
    /\ wm = NoWm
    /\ \E existing \in UniqueSeqs(MergeRows) : parts = [d \in {0} |-> existing]
    /\ pc = "write"
    /\ mode = "merge"
    /\ window = [from |-> StartDate, to |-> 2]
    /\ fetched \in UniqueSeqs(MergeRows) \ {<<>>}
    /\ pending = SortedSeq(AffectedDates(entity, fetched))
    /\ result = "none"
    /\ runs = 1
    /\ failedAt = "none"
    /\ wm0 = NoWm
    /\ parts0 = parts
    /\ changed = FALSE
    /\ prev = NoRun
    /\ expect = <<>>
    /\ other = OtherTable
    /\ reads = AllRead
    /\ fetcher = NoFetcher
    /\ pacer = NoPacer
    /\ split = NoSplit
    /\ act = NoActivity
    /\ race = NoRace
    /\ cred = NoCred
    /\ query = NoQuery
    /\ flow = NoFlow
    /\ norm = NoNorm
    /\ limit = Limits

NextMerge == WritePartition

SpecMerge == InitMerge /\ [][NextMerge]_vars

TypeOK ==
    /\ pc \in {"idle", "fetch", "write", "commit"}
    /\ mode \in {"full", "merge"}
    /\ result \in {"none", "ok", "failed"}

\* ------------------------------------------------------------ properties
Finished == pc = "idle" /\ runs > 0
Committed == Finished /\ result = "ok" /\ wm # wm0
\* the partitions the current (or last) run has written so far
Written == AffectedDates(entity, fetched) \ Range(pending)
Ids_(s) == {s[i].id : i \in 1..Len(s)}
StoredRows == UNION {Range(parts[d]) : d \in DOMAIN parts}
SourceRow(i) == [id |-> i, created |-> source[i].created, modified |-> source[i].modified]

\* C1 (as claimed): a successful commit leaves last_created_at and
\* last_modified_at at or above their previous values, and a failed run
\* leaves the sync state as it was.
WatermarkMonotone ==
    /\ (Committed /\ wm0.exists) => (wm.lc >= wm0.lc /\ wm.lm >= wm0.lm)
    /\ (Finished /\ result = "failed") => wm = wm0

CommitAfterWrites ==
    /\ wm # wm0 =>
          /\ pc = "idle" /\ result = "ok" /\ pending = <<>> /\ failedAt = "none"
          /\ \A d \in AffectedDates(entity, fetched) :
                /\ d \in DOMAIN parts
                /\ parts[d] = MergedPartition(mode, entity, parts0, fetched, d)
    /\ pc \in {"fetch", "write"} => wm = wm0
    /\ (Finished /\ result = "failed") => wm = wm0
CommitAfterWritesWitness ==
    /\ Committed
    /\ Cardinality(AffectedDates(entity, fetched)) >= 2

LaterModified(d, i) ==
    MaxOf({r.modified : r \in {x \in Range(Existing(parts0, d)) \cup
                                      Range(RowsOf(entity, fetched, d)) : x.id = i}})
DedupKeepsLatest ==
    mode = "merge" =>
        \A d \in Written :
            \A i \in Ids_(Existing(parts0, d)) \cap Ids_(RowsOf(entity, fetched, d)) :
                /\ Cardinality({k \in 1..Len(parts[d]) : parts[d][k].id = i}) = 1
                /\ \A k \in 1..Len(parts[d]) :
                      parts[d][k].id = i => parts[d][k].modified = LaterModified(d, i)

\* C6: no partition holds two rows with the same primary key.
PartitionKeysUnique ==
    \A d \in DOMAIN parts :
        \A i, j \in 1..Len(parts[d]) : parts[d][i].id = parts[d][j].id => i = j
PartitionKeysUniqueWitness ==
    /\ mode = "merge"
    /\ \E d \in Written :
          Ids_(Existing(parts0, d)) \cap Ids_(RowsOf(entity, fetched, d)) # {}

\* the rows of every partition, whatever their order in the file
RowSets(p) == [d \in DOMAIN p |-> Range(p[d])]

\* C8 (as claimed): a run over the same source data as the successful run
\* before it leaves every partition with the rows that run left in it.
Idempotent ==
    (Finished /\ result = "ok" /\ prev.result = "ok" /\ prev.same)
        => RowSets(parts) = RowSets(parts0)

\* C9 (as claimed): a run that fails while fetching leaves sync state and
\* partitions as they were, and the next run starts its window where the
\* failed one did.
FetchFailureNoTrace ==
    /\ (Finished /\ FailedBeforeWrite(failedAt)) => (wm = wm0 /\ parts = parts0)
    /\ (pc # "idle" /\ FailedBeforeWrite(prev.failedAt)) => window.from = prev.from

\* C9 (amended): ... and the next run starts its window where the failed one
\* did whenever it selects the same mode (same answer from the parameter and
\* the sync state reads).
FetchFailureNoTraceSameMode ==
    /\ (Finished /\ FailedBeforeWrite(failedAt)) => (wm = wm0 /\ parts = parts0)
    /\ (pc # "idle" /\ FailedBeforeWrite(prev.failedAt) /\ mode = prev.mode)
          => window.from = prev.from
FetchFailureWitness ==
    /\ pc = "fetch" /\ FailedBeforeWrite(prev.failedAt)
    /\ mode = "merge" /\ prev.mode = "merge" /\ window.from > StartDate

\* C10 (as claimed): when the writer fails part-way, the partitions written
\* keep their new contents, the others their old ones, the sync state is not
\* committed, and a later run over the same source data ends with the rows a
\* failure-free run would have stored.
PartialWriteConverges ==
    /\ (Finished /\ FailedInWrite(failedAt)) =>
          /\ wm = wm0
          /\ \A d \in Written :
                parts[d] = MergedPartition(mode, entity, parts0, fetched, d)
          /\ \A d \in (DOMAIN parts0) \ Written : parts[d] = parts0[d]
          /\ DOMAIN parts = (DOMAIN parts0) \cup Written
    /\ (Finished /\ result = "ok" /\ FailedInWrite(prev.failedAt) /\ prev.same)
          => RowSets(parts) = RowSets(expect)

\* C11: a merge-mode run changes only the partitions whose date is among the
\* incoming rows, and those only when it writes them; every other partition of
\* the entity type and the table of the other entity type stay as they were.
MergeFrame ==
    mode = "merge" =>
        /\ \A d \in (DOMAIN parts0) \ Written : d \in DOMAIN parts /\ parts[d] = parts0[d]
        /\ DOMAIN parts \subseteq (DOMAIN parts0) \cup Written
        /\ Written \subseteq AffectedDates(entity, fetched)
        /\ other = OtherTable
MergeFrameWitness ==
    /\ mode = "merge" /\ Finished /\ result = "ok"
    /\ Written # {} /\ parts # parts0
    /\ (DOMAIN parts0) \ AffectedDates(entity, fetched) # {}

\* C12: a run that finds no sync state for its entity type runs a full sync
\* over the window from the configured start date to the time it started.
FirstRunWindow ==
    (runs > 0 /\ ~wm0.exists) =>
        /\ mode = "full"
        /\ window.from = StartDate
        /\ (pc # "idle" /\ ~changed) => window.to = now
FirstRunWindowWitness ==
    /\ pc = "fetch" /\ ~wm0.exists /\ IsEnabled(param) /\ runs >= 2
    /\ window = [from |-> StartDate, to |-> now] /\ now > 0

\* C13: a run that could not read the parameter or the sync state is a full
\* sync from the configured start date, and it goes on: if it fails, it fails
\* in its fetch, its writes or its commit.
ReadFailed == ~reads.param \/ ~reads.state
ReadFailsOpen ==
    (runs > 0 /\ ReadFailed) =>
        /\ mode = "full"
        /\ window.from = StartDate
        /\ pc = "idle" => (result = "ok" \/ failedAt \in {"fetch", "write", "commit"})
ReadFailsOpenWitness ==
    /\ Committed /\ ReadFailed /\ IsEnabled(param)
    /\ wm0.exists /\ IncrementalStart(wm0) > StartDate

\* a run that wrote every partition and could not update the sync state
CommitFailed(r, f) == r = "ok" /\ f = "commit"

\* C14 (as claimed): a run whose sync state update fails reports success with
\* every partition written and the sync state as it was; the next run starts
\* its window at that sync state minus the overlap and leaves in every
\* partition the rows it found there.
CommitFailureNonFatal ==
    /\ (Finished /\ CommitFailed(result, failedAt)) =>
          /\ wm = wm0 /\ pending = <<>>
          /\ \A d \in AffectedDates(entity, fetched) :
                d \in DOMAIN parts
                /\ parts[d] = MergedPartition(mode, entity, parts0, fetched, d)
    /\ (pc # "idle" /\ CommitFailed(prev.result, prev.failedAt)) =>
          /\ wm0.exists
          /\ window.from = Max2(wm0.lc, wm0.lm) - 2
    /\ (Finished /\ result = "ok" /\ CommitFailed(prev.result, prev.failedAt) /\ prev.same)
          => RowSets(parts) = RowSets(parts0)

\* C14 (amended): ... the next run, when it is incremental, starts its window
\* at that sync state minus the overlap and leaves in every partition the rows
\* it found there.
CommitFailureNonFatalIncremental ==
    /\ (Finished /\ CommitFailed(result, failedAt)) =>
          /\ wm = wm0 /\ pending = <<>>
          /\ \A d \in AffectedDates(entity, fetched) :
                d \in DOMAIN parts
                /\ parts[d] = MergedPartition(mode, entity, parts0, fetched, d)
    /\ (pc # "idle" /\ CommitFailed(prev.result, prev.failedAt) /\ mode = "merge") =>
          /\ wm0.exists
          /\ window.from = Max2(wm0.lc, wm0.lm) - 2
    /\ (Finished /\ result = "ok" /\ CommitFailed(prev.result, prev.failedAt) /\ prev.same
           /\ mode = "merge")
          => RowSets(parts) = RowSets(parts0)
CommitFailureWitness ==
    /\ Finished /\ result = "ok" /\ CommitFailed(prev.result, prev.failedAt) /\ prev.same
    /\ mode = "merge" /\ fetched # <<>> /\ window.from > StartDate

\* C15: ahead of its n-th retry a request has waited 1, 2, 4, 8, 16 seconds
\* (1, 3, 7, 15, 31 in all), it is retried at most 5 times, and the fetch
\* always ends: in success, after which the run completes and commits, or in
\* failure once a request has used its fifth retry.
WaitedBefore(n) == CASE n = 0 -> 0 [] n = 1 -> 1 [] n = 2 -> 3 [] n = 3 -> 7
                     [] n = 4 -> 15 [] n = 5 -> 31 [] OTHER -> 0 - 1
RetryBounded ==
    /\ fetcher.attempt \in 0..5
    /\ fetcher.st \in {"request", "success", "failed"}
          => fetcher.waited = WaitedBefore(fetcher.attempt)
    /\ fetcher.st = "wait" => fetcher.waited = WaitedBefore(fetcher.attempt - 1)
    /\ fetcher.st = "failed" =>
          /\ fetcher.attempt = 5
          /\ wm = wm0 /\ parts = parts0
          /\ pc = "idle" => result = "failed"
RetryStateMachine ==
    /\ []RetryBounded
    /\ <>(fetcher.st \in {"success", "failed"})
    /\ (fetcher.st = "success") ~> (pc = "idle" /\ result = "ok" /\ wm = NewSyncState(fetched))
RetryWitness ==
    /\ fetcher.st = "success" /\ fetcher.attempt = 3 /\ fetcher.waited = 1 + 2 + 4
    /\ pc = "idle" /\ result = "ok" /\ wm.exists /\ wm # wm0

\* C16: in no second, wherever it starts, does the run send more than 5
\* requests, retries and the requests of both sub-window fetches included.
RateLimited ==
    \A t \in 0..pacer.clock : Cardinality(SentIn(t)) <= 5
RateLimitedWitness ==
    /\ Cardinality(SentIn(0)) = 5
    /\ Len(pacer.sent) > 5
    /\ pacer.retries > 0
    /\ \A f \in Fetchers : pacer.st[f] = "done"

\* C17 (as claimed): a window over the cap is fetched as sub-windows that are
\* pairwise disjoint, that make up the window, that each return fewer results
\* than the cap, in window order, and every record of the window is delivered
\* exactly once.
Delivered == {<<i, j>> \in (DOMAIN split.got) \X (1..MaxResults) : j <= Len(split.got[i])}
SplitFetchesAll ==
    (split.st = "done" /\ Count(split.recs, split.win) > MaxResults) =>
        /\ \A i \in DOMAIN split.subs : split.subs[i].from <= split.subs[i].to
        /\ split.subs[1].from = split.win.from
        /\ split.subs[Len(split.subs)].to = split.win.to
        /\ \A i \in 1..(Len(split.subs) - 1) : split.subs[i + 1].from = split.subs[i].to + 1
        /\ \A i \in DOMAIN split.subs : Count(split.recs, split.subs[i]) < MaxResults
        /\ \A i \in DOMAIN split.got :
              \A j \in DOMAIN split.got[i] : split.got[i][j] \in InWindow(split.recs, split.subs[i])
        /\ \A r \in InWindow(split.recs, split.win) :
              Cardinality({d \in Delivered : split.got[d[1]][d[2]] = r}) = 1

\* C18 (as claimed): the category of an activity row is that of the first
\* rule that matches, in the order: explicit type code; for a note, platform
\* keyword in the note or communication body; communication-source keyword;
\* raw type.  No keyword in body or source changes the category of a row
\* with an explicit type code.
HasType(code) == Upper(act.row.activity_type) = code
InBody(kw) ==
    \/ Like(Lower(Coalesce(act.row.note_body)), kw)
    \/ Like(Lower(Coalesce(act.row.communication_body)), kw)
InSubject(kw) == Like(Lower(Coalesce(act.row.note_subject)), kw)
InSource(kw) == Like(Lower(Coalesce(act.row.communication_source)), kw)
UnlistedType == Upper(act.row.activity_type) \in {Null, "COMMUNICATION"}
ClassificationPrecedence ==
    act.st = "done" =>
        /\ HasType("CALL") => act.category = "Call"
        /\ HasType("EMAIL") =>
              act.category \in {"Email reply from contact", "Email sent to contact"}
        /\ HasType("MEETING") => act.category = "Meeting"
        /\ HasType("TASK") => act.category = "Task"
        /\ HasType("SMS") => act.category = "SMS"
        /\ HasType("WHATSAPP") => act.category = "WhatsApp"
        /\ HasType("LINKEDIN") => act.category = "LinkedIn Message"
        /\ (HasType("NOTE") /\ InBody("linkedin")) => act.category = "LinkedIn Message"
        /\ (HasType("NOTE") /\ ~InBody("linkedin") /\ ~InSubject("linkedin") /\ InBody("whatsapp"))
              => act.category = "WhatsApp"
        /\ (UnlistedType /\ InSource("linkedin")) => act.category = "LinkedIn Message"
        /\ (UnlistedType /\ ~InSource("linkedin") /\ InSource("whatsapp"))
              => act.category = "WhatsApp"
        /\ (UnlistedType /\ ~InSource("linkedin") /\ ~InSource("whatsapp")) =>
              act.category = IF act.row.activity_type = Null THEN "Unknown"
                             ELSE act.row.activity_type

CredentialCache ==
    /\ (cred.last.had /\ cred.last.age < 5) =>
          /\ cred.last.kind = "hit"
          /\ Len(cred.reads) = cred.last.n
          /\ cred.last.tok = cred.token
    /\ (cred.last.kind # "none" /\ ~(cred.last.had /\ cred.last.age < 5)) =>
          \/ cred.last.kind = "error" /\ Len(cred.reads) = cred.last.n
          \/ /\ cred.last.kind = "miss"
             /\ Len(cred.reads) = cred.last.n + 1
             /\ cred.cached /\ cred.token = cred.last.tok
             /\ cred.fetchedAt = cred.reads[Len(cred.reads)]
             /\ cred.last.tok = cred.last.stored
    /\ \A i, j \in DOMAIN cred.reads : i < j => cred.reads[j] - cred.reads[i] >= 5
CredentialCacheWitness ==
    /\ Len(cred.reads) = 2
    /\ cred.last.kind = "hit" /\ cred.last.age = 4
    /\ cred.token # cred.secret

\* C21: when getToken() fails the fetch is over at once: no backoff wait, no
\* further request and no further call of getToken follow, the run fails, and
\* partitions and sync state stay as they were when the run started.
CredentialDenied == cred.last.kind = "error"
CredentialErrorFatalState ==
    CredentialDenied =>
        /\ fetcher.st = "denied"
        /\ wm = wm0 /\ parts = parts0
        /\ pc \in {"fetch", "idle"}
        /\ pc = "idle" => (result = "failed" /\ failedAt = "fetch")
CredentialErrorFatal ==
    /\ []CredentialErrorFatalState
    /\ [][CredentialDenied => (fetcher' = fetcher /\ cred' = cred)]_vars
    /\ CredentialDenied ~> (pc = "idle" /\ result = "failed")
CredentialErrorWitness ==
    /\ CredentialDenied /\ pc = "idle" /\ result = "failed"
    /\ cred.cached /\ fetcher.page = 2 /\ Len(cred.reads) = 1

\* C22: a record that fails normalization is left out and counted and the
\* run goes on: rows handed to the writer plus records skipped are the
\* records the normalizer has seen, and once the run is over it has
\* succeeded, every well-formed record is stored, the rows written plus the
\* records skipped are the records fetched, and the sync state counts the
\* rows written.
Malformed == {k \in DOMAIN norm.raw : ~norm.raw[k].ok}
WellFormed == {k \in DOMAIN norm.raw : norm.raw[k].ok}
RowsWritten ==
    {k \in DOMAIN fetched :
        /\ PartitionKey(entity, fetched[k]) \in DOMAIN parts
        /\ fetched[k] \in Range(parts[PartitionKey(entity, fetched[k])])}
MalformedSkipped ==
    /\ Len(fetched) + norm.skipped = norm.next - 1
    /\ Range(fetched) = {norm.raw[k].rec : k \in {j \in WellFormed : j < norm.next}}
    /\ pc # "fetch" => Len(fetched) + norm.skipped = Len(norm.raw)
    /\ pc = "idle" =>
          /\ result = "ok"
          /\ norm.skipped = Cardinality(Malformed)
          /\ Cardinality(RowsWritten) + norm.skipped = Len(norm.raw)
          /\ \A k \in WellFormed : norm.raw[k].rec \in StoredRows
          /\ wm.n = Cardinality(RowsWritten)
MalformedSkippedWitness ==
    /\ pc = "idle" /\ result = "ok" /\ mode = "merge"
    /\ norm.skipped = 1 /\ Len(norm.raw) = 2 /\ ~norm.raw[1].ok
    /\ parts # parts0

\* C23 (as claimed): a run is a full sync when incremental sync is disabled
\* or no sync state exists, and after a successful full sync the partitions
\* of the entity type hold the rows of the fetched data, partition by
\* partition, and no row of an earlier run.
FullReplaceExact ==
    /\ (pc # "idle" /\ (~IsEnabled(param) \/ ~wm0.exists)) => mode = "full"
    /\ (Finished /\ result = "ok" /\ mode = "full") =>
          /\ StoredRows = Range(fetched)
          /\ \A d \in DOMAIN parts : parts[d] = RowsOf(entity, fetched, d)

\* C24: a run merges only when it read the parameter and found one of
\* true, 1, yes, enabled in it, and read a sync state of its entity type;
\* with false (the deployed value), 0, no or disabled in the parameter, with
\* the parameter unreadable, or with no sync state, the run is a full sync
\* from the configured start date.  A run that merges writes each affected
\* partition as the deduplicated union of its rows and the fetched ones, a
\* full sync as the fetched rows alone.
ModeSelection ==
    runs > 0 =>
        /\ mode = "merge" =>
              /\ reads.param /\ param \in {"true", "1", "yes", "enabled"}
              /\ reads.state /\ wm0.exists
        /\ (param \in {"false", "0", "no", "disabled"} \/ ~reads.param \/ ~wm0.exists) =>
              /\ mode = "full"
              /\ window.from = StartDate
        /\ DefaultParam = "false"
        /\ \A d \in Written :
              parts[d] = IF mode = "merge"
                         THEN KeepLast(Existing(parts0, d) \o RowsOf(entity, fetched, d))
                         ELSE RowsOf(entity, fetched, d)
ModeSelectionWitness ==
    /\ Finished /\ result = "ok" /\ mode = "merge" /\ param = "yes"
    /\ Written # {} /\ parts # parts0

\* the steps of an execution, in the order they are to run
StepOrder ==
    <<"InvokeDealsFunction", "InvokeActivitiesFunction", "InvokeOwnersFunction",
      "InvokeCompaniesFunction", "InvokePipelinesFunction", "InvokeContactsFunction",
      "StartCuratedCrawler", "StartDimCrawler", "SendSuccessNotification">>
IsPrefix(a, b) == Len(a) <= Len(b) /\ \A i \in 1..Len(a) : a[i] = b[i]
InOrder ==
    /\ IsPrefix(flow.started, StepOrder)
    /\ IsPrefix(flow.done, flow.started)
    /\ Len(flow.started) <= Len(flow.done) + 1
    /\ Cardinality(flow.inflight) <= 1
    /\ flow.inflight \subseteq LambdaTasks

\* C25 (as claimed): the steps of an execution start in the order deals,
\* activities, owners, companies, pipelines, contacts, curated crawler, dim
\* crawler, success notification, each after the step before it succeeded,
\* no two functions are in flight together, and no function is invoked twice.
WorkflowSerialized ==
    /\ InOrder
    /\ flow.again = {}

\* C25 (amended): ... and a function is invoked again only as the retry of
\* a call that the Lambda service failed, at most 6 times, while it is the
\* step last started and has not succeeded.
RetriedInPlace ==
    /\ flow.attempt \in 0..6
    /\ flow.again \subseteq LambdaTasks \cap Range(flow.started)
    /\ (flow.st \in {"running", "backoff"} /\ flow.attempt > 0) => Current \in LambdaTasks
WorkflowSerializedWithRetries ==
    /\ [](InOrder /\ RetriedInPlace)
    /\ [][\A f \in flow'.again \ flow.again :
              /\ f = flow.started[Len(flow.started)]
              /\ f \notin Range(flow.done)
              /\ flow.attempt > 0 /\ flow'.attempt = flow.attempt]_vars
WorkflowSerializedWitness ==
    /\ flow.st = "succeeded" /\ flow.done = StepOrder
    /\ flow.again = {"InvokeCompaniesFunction"}

ExecutionOver == flow.st \in {"succeeded", "handled", "failed"}
Routed ==
    /\ flow.failed # "none" =>
          /\ flow.started # <<>> /\ flow.started[Len(flow.started)] = flow.failed
          /\ flow.failed \notin Range(flow.done)
          /\ "success" \notin flow.published
    /\ "success" \in flow.published =>
          /\ LambdaTasks \cup CrawlerTasks \subseteq Range(flow.done)
          /\ flow.failed = "none"
    /\ flow.published # {"success", "failure"}
    /\ "failure" \in flow.published => flow.failed # "none"

\* C26 (as claimed): once a step of the chain has failed no later step is
\* started, the success notification is not published and the execution
\* ends with the failure notification published; the success notification
\* is published only after the six functions and both crawler starts
\* succeeded; no execution publishes both.
FailureRouting ==
    /\ Routed
    /\ (ExecutionOver /\ flow.failed # "none") => "failure" \in flow.published

\* C26 (amended): ... and the execution goes on to the failure notification,
\* which is published unless that publish fails itself: then the execution
\* fails with no notification.
FailureRoutingUnlessPublishFails ==
    /\ []Routed
    /\ []((ExecutionOver /\ flow.failed # "none") =>
              /\ flow.alerted
              /\ ("failure" \in flow.published) = (flow.st = "handled"))
    /\ (flow.failed # "none") ~> (flow.alerted /\ ExecutionOver)
FailureRoutingWitness ==
    /\ flow.st = "handled" /\ flow.failed = "StartDimCrawler"
    /\ flow.published = {"failure"} /\ Len(flow.done) = 7

\* C27: whatever the window and the instants of its records, the window is
\* cut at most as many times as it spans instants beyond the first, the
\* sub-windows are then fetched one after the other, and the fetch ends:
\* with every sub-window fetched, or failed.
SubdivisionBounded ==
    /\ split.cuts <= split.win.to - split.win.from
    /\ split.st \in {"fetch", "done", "failed"} =>
          /\ split.todo = <<>>
          /\ split.subs = SplitWindow(split.recs, split.win)
    /\ split.st = "done" => Len(split.got) = Len(split.subs)
NothingNew ==
    /\ Finished /\ result = "ok" /\ failedAt = "none" /\ mode = "merge"
    /\ \A i \in 1..Len(fetched) : fetched[i].modified < Max2(wm0.lc, wm0.lm)
EmptyRunKeepsWatermark ==
    NothingNew =>
        /\ wm.lc >= wm0.lc /\ wm.lm >= wm0.lm
        /\ UsesIncremental(TRUE, TRUE, param, wm)
        /\ IncrementalStart(wm) >= IncrementalStart(wm0)

\* C29 (as claimed): after two overlapping runs of an entity type have both
\* committed, the sync state is not earlier than the one stored before
\* them, and every row a run merged that the sync state covers is in
\* storage, in that version or a later one.
BothCommitted == \A r \in RunIds : race.st[r] = "committed"
Kept(row) == \E x \in StoredRows : x.id = row.id /\ x.modified >= row.modified
InterleavedCommits ==
    BothCommitted =>
        /\ wm.lc >= wm0.lc /\ wm.lm >= wm0.lm
        /\ \A r \in RunIds : \A i \in 1..Len(race.rows[r]) :
              race.rows[r][i].modified <= Max2(wm.lc, wm.lm) => Kept(race.rows[r][i])

\* C30 (as claimed): whatever the deals table holds, the view returns one
\* row for every deal_id in it, and that row is the stored version modified
\* last (last_modified_at, or created_at where that is NULL).
DealsLatestCorrect ==
    query.st = "done" =>
        /\ \A r \in query.rows : Cardinality({q \in query.out : q.id = r.id}) = 1
        /\ \A r \in query.out :
              /\ r \in query.rows
              /\ \A q \in query.rows :
                    q.id = r.id => CoalesceModified(q) <= CoalesceModified(r)

\* C7 (as claimed): a primary key is stored in one partition only.
DatasetKeysUnique ==
    \A d1, d2 \in DOMAIN parts :
        d1 # d2 => Ids_(parts[d1]) \cap Ids_(parts[d2]) = {}
====
